---- MODULE Spec2Model ----
(***************************************************************************)
(* The loop control of the knowledge-graph constructor: UserIntentLoop     *)
(* (src/src/user_intent.py), SchemaProposalLoop and SchemaCriticLoop       *)
(* (src/src/workflow/structured/), driven by an agno Loop: a bounded       *)
(* sequence of steps, repeated until end_condition holds of the last       *)
(* step's output or max_iterations iterations have run.                    *)
(*                                                                         *)
(* An optional value (Python's "X | None") is a sequence of length 0 or 1. *)
(* A message content is a record, so that the text the agent formats       *)
(* (llm_message plus the goal block) and a plain text compare.             *)
(***************************************************************************)
EXTENDS Integers, Sequences, FiniteSets, TLC

\* ------------------------------------------------------------------ bounds
\* The largest max_iterations a loop is constructed with.
MaxIterations == 3

\* The session identifiers; a specification runs the sessions of `sessions`.
Sessions == {1, 2}

\* The most messages a human submits in one session, and the most an agent writes.
MaxSubmissions == 3
MaxAgentWrites == 2

\* The most data rows a CSV file has.
MaxRows == 12

\* ------------------------------------------------------------------ values
None == << >>
Some(v) == << v >>
Get(o) == o[1]

\* UserGoal(kind_of_graph, description)
UserGoal(k, d) == [kind_of_graph |-> k, description |-> d]
Goals == { UserGoal("social network", "who knows whom"),
           UserGoal("freight logistics", "routing of cargo") }

\* A plain text as a message content.
Text(t) == [text |-> t, goal_block |-> None]

\* Message(sender, content)
Message(s, c) == [sender |-> s, content |-> c]

\* UserIntentLoop.LoopState(chat_history, proposed_goal=None, goal_approved=False)
LoopState(h, g, a) == [chat_history |-> h, proposed_goal |-> g, goal_approved |-> a]

VARIABLES
    sessions,          \* the sessions that exist in this run of the system
    pc,                \* per session: where the user intent loop stands
    iteration,         \* per session: the iteration the loop is in (0 before the run)
    max_iterations,    \* per session: Loop(max_iterations=...)
    class_last,        \* UserIntentLoop.last_iteration_output_content, the class attribute
    inst_last,         \* per session: the instance attribute of the same name, None while unset
    state,             \* per session: get_user_input's local `state` while it waits
    step_output,       \* per session: the content of get-user-input's StepOutput
    loop_results,      \* per session: the terminal step's output of every iteration so far
    session_state,     \* per session: the workflow's session_state dict
    session_state0,    \* per session: session_state as the run found it
    messages,          \* per session: session['messages']
    workflow_input,    \* per session: the input of workflow.arun
    agent_log,         \* per session: what agent.arun returned, call by call
    wait_count,        \* per session: calls of get_latest_user_message
    goal_writes,       \* per session: assignments to session_state["user_goal"]
    kind,              \* per session: the loop its workflow runs
    sp_pc,             \* per session: where the schema proposal loop stands
    sp_iteration,      \* per session: the schema proposal loop's iteration
    sp_max_iterations, \* per session: SchemaProposalLoop(max_iterations=...)
    sp_last,           \* per session: SchemaProposalLoop's last_iteration_output_content
    sp_step_output,    \* per session: the content of its get-user-input's StepOutput
    sc_pc,             \* per session: where the nested schema critic loop stands
    sc_iteration,      \* per session: the critic loop's iteration in this pass
    sc_max_iterations, \* per session: SchemaCriticLoop(max_iterations=...)
    sc_outputs,        \* per session: the critic loop's step outputs of this iteration
    frontend,          \* the front end that serves the sessions: "flask" or "streamlit"
    files_submitted,   \* per session: the files were uploaded (the session is set up)
    USER_SENT_MESSAGE, \* the asyncio.Event objects, by owner: is the event set
    run,               \* per session: where the workflow run its first message started stands
    callback,          \* per session: is the handler that started the run still inside it
    returned,          \* per session: what get_latest_user_message returned, call by call
    error_shown,       \* per session: how often the app showed "Please upload files first."
    submitted_in_wait, \* per session: a human message was submitted during the wait in progress
    files,             \* session_state['files'] of the CSV workflow: None while the key is absent
    peek_filename,     \* the filename of the latest peek_file call, None before any
    peek_result        \* what that call returned or raised

\* The user intent loop's own variables, the schema loops', and the rest.
uiVars == << pc, iteration, max_iterations, class_last, inst_last, state, step_output,
             loop_results, agent_log, goal_writes >>
spVars == << sp_pc, sp_iteration, sp_max_iterations, sp_last, sp_step_output >>
scVars == << sc_pc, sc_iteration, sc_max_iterations, sc_outputs >>
envVars == << sessions, kind, session_state, session_state0, messages, workflow_input,
              wait_count >>

\* The message channel's variables (it shares `messages` with the loops).
chVars == << frontend, files_submitted, USER_SENT_MESSAGE, run, callback, returned,
            submitted_in_wait, error_shown >>

\* The variables of the agents' file tool.
toolVars == << files, peek_filename, peek_result >>

vars == << uiVars, spVars, scVars, envVars, chVars, toolVars >>

\* ------------------------------------------------------------------ inputs
\* With one session the human and the capability range widely; with two
\* sessions interleaving, each is narrowed to keep the product small.
UserTexts == IF Cardinality(sessions) = 1 THEN {"looks good", "more detail"} ELSE {"ok"}

TriggerText(s) == IF s = 1 THEN "build a social network graph" ELSE "map my supply chain"

ProposableGoals == IF Cardinality(sessions) = 1 THEN Goals
                   ELSE { UserGoal("social network", "who knows whom") }

\* UserIntentLoop.AgentOutputSchema
AgentOutputSchema ==
    [ llm_message : {"reply"},
      proposed_goal : {None} \cup { Some(g) : g \in ProposableGoals },
      goal_approved : BOOLEAN ]

\* KnowledgeGraphCreationWorkflow.State(csv_files=..., unstructured_files=...):
\* the user_goal key is absent until the loop sets it.
State(csv, unstructured) ==
    [csv_files |-> csv, unstructured_files |-> unstructured, user_goal |-> None]

\* ------------------------------------------------------------------ the loop's pieces
\* self.last_iteration_output_content: the instance attribute when the instance
\* has one, the class attribute otherwise.
last_iteration_output_content(s) ==
    IF inst_last[s] # None THEN inst_last[s] ELSE class_last

\* A bug: the carry-over is set once and never replaced.
StoreOnlyFirst(s, output) ==
    [cls |-> class_last,
     inst |-> IF inst_last[s] = None THEN [inst_last EXCEPT ![s] = Some(output)]
              ELSE inst_last]

\* A bug: the carry-over written to the class, shared by every instance.
StoreOnClass(s, output) == [cls |-> Some(output), inst |-> inst_last]

\* A bug: the carry-over is never stored.
StoreNothing(s, output) == [cls |-> class_last, inst |-> inst_last]

\* self.last_iteration_output_content = output: sets the attribute on the instance.
StoreLastIterationOutput(s, output) ==
    [cls |-> class_last, inst |-> [inst_last EXCEPT ![s] = Some(output)]]

\* A bug: the first iteration starts from an empty history.
InitialLoopStateEmpty(input) == LoopState(<< >>, None, FALSE)

\* get_user_input, first iteration: the initial user message starts the history.
InitialLoopState(input) == LoopState(<< Message("user", Text(input)) >>, None, FALSE)

\* A bug: the carried-over proposal is dropped.
NextLoopStateForgetsProposal(st, user_msg) ==
    LoopState(Append(st.chat_history, user_msg), None, FALSE)

\* A bug: the history starts again from the latest user message.
NextLoopStateFresh(st, user_msg) ==
    LoopState(<< user_msg >>, st.proposed_goal, FALSE)

\* get_user_input, later iterations: the latest user message is added to the
\* carried-over history, the proposal is kept, goal_approved is the default.
NextLoopState(st, user_msg) ==
    LoopState(Append(st.chat_history, user_msg), st.proposed_goal, FALSE)

\* The text propose_user_goal writes: llm_message, then the goal block when the
\* agent proposed a goal ("Finalized" when approved, "Proposed" otherwise).
AgentMessage(response) ==
    [ text |-> response.llm_message,
      goal_block |->
        IF response.proposed_goal # None
        THEN Some([ label |-> IF response.goal_approved THEN "Finalized" ELSE "Proposed",
                    kind_of_graph |-> Get(response.proposed_goal).kind_of_graph,
                    description |-> Get(response.proposed_goal).description ])
        ELSE None ]

\* A bug: the goal committed whenever one is proposed.
WritesGoalWhenProposed(response) == response.proposed_goal # None

\* A bug: an approval of a None proposal passed over in silence.
WritesGoalGuarded(response) == response.goal_approved /\ response.proposed_goal # None

\* if response.content.goal_approved: session_state["user_goal"] = ...
WritesGoal(response) == response.goal_approved

\* response.content.proposed_goal.kind_of_graph raises on a None proposal.
RaisesOnWrite(response) == WritesGoal(response) /\ response.proposed_goal = None

\* session_state["user_goal"] = UserGoal(kind_of_graph=..., description=...)
SetUserGoal(ss, response) ==
    [ss EXCEPT !.user_goal =
        Some(UserGoal(Get(response.proposed_goal).kind_of_graph,
                      Get(response.proposed_goal).description))]

\* A bug: the history gets the agent's bare text, not the message that was written.
ProposeOutputBareText(st, response) ==
    LoopState(Append(st.chat_history, Message("agent", Text(response.llm_message))),
              response.proposed_goal, response.goal_approved)

\* A bug: the output keeps the proposal the iteration started with.
ProposeOutputKeepsProposal(st, response) ==
    LoopState(Append(st.chat_history, Message("agent", AgentMessage(response))),
              st.proposed_goal, response.goal_approved)

\* The LoopState propose_user_goal outputs.
ProposeOutput(st, response) ==
    LoopState(Append(st.chat_history, Message("agent", AgentMessage(response))),
              response.proposed_goal, response.goal_approved)

\* A bug: the loop never ends on approval.
EndConditionNever(out) == FALSE

\* A bug: the loop ends as soon as a goal is proposed.
EndConditionOnProposal(out) == out.proposed_goal # None

\* end_condition = lambda step_outputs: step_outputs[-1].content.goal_approved
\* (out is that content)
end_condition(out) == out.goal_approved

\* A bug: one iteration too many.
MayIterateOneMore(i, m) == i <= m

\* A bug: one iteration too few.
MayIterateOneLess(i, m) == i + 1 < m

\* A bug: the budget is not enforced.
MayIterateAlways(i, m) == TRUE

\* Loop(max_iterations=m): after iteration i, another one runs while fewer than
\* m have run.
MayIterate(i, m) == i < m

\* The model's cap on an iteration counter: beyond every budget, so that it is
\* reached only when the budget fails to stop the loop.
IterationCap == MaxIterations + 2

\* ------------------------------------------------------------------ the schema loops' pieces
\* StepOutput(content=c)
StepOutput(c) == [content |-> c]

\* A string as a step's content.
Str(t) == [str |-> t]

\* SchemaProposalLoop.LoopState(chat_history, entity_types=[], relationship_types=[],
\* approved=False)
ProposalLoopState(h, e, r, a) ==
    [chat_history |-> h, entity_types |-> e, relationship_types |-> r, approved |-> a]

\* SchemaCriticLoop.SchemaProposal, what the proposal agent returns.
SchemaProposal ==
    { [entity_types |-> << >>, relationship_types |-> << >>],
      [entity_types |-> << "Person" >>, relationship_types |-> << "KNOWS" >>] }

\* What the critic agent returns.
CriticFeedback == { "APPROVED", "add an entity type" }

\* SchemaProposalLoop.get_user_input: `last` is self.last_iteration_output_content,
\* `st` is step_input.content, what the engine hands the step.
SchemaProposalLoop_get_user_input_output(last, st, input, user_msg) ==
    IF last = None
    THEN ProposalLoopState(<< Message("user", Text(input)) >>, << >>, << >>, FALSE)
    ELSE ProposalLoopState(Append(st.chat_history, user_msg),
                           st.entity_types, st.relationship_types, FALSE)

\* SchemaCriticLoop's end_condition,
\*   lambda step_outputs: step_outputs[-1].critic_feedback == "APPROVED",
\* reads critic_feedback off the StepOutput itself, which has no such attribute:
\* the read raises.
SchemaCriticLoop_end_condition(step_outputs) ==
    LET last == step_outputs[Len(step_outputs)] IN
    IF "critic_feedback" \in DOMAIN last
    THEN [raised |-> FALSE, value |-> last.critic_feedback = "APPROVED"]
    ELSE [raised |-> TRUE, value |-> FALSE]

\* SchemaProposalLoop's end_condition,
\*   lambda step_outputs: step_outputs[-1].content.approved,
\* where step_outputs[-1] is the nested critic loop's output.
SchemaProposalLoop_end_condition(last) ==
    IF "approved" \in DOMAIN last.content
    THEN [raised |-> FALSE, value |-> last.content.approved]
    ELSE [raised |-> TRUE, value |-> FALSE]

\* ------------------------------------------------------------------ the file tool's pieces
\* A Python str is the sequence of its characters; a list of lines is a sequence
\* of such sequences.
\*
\* CSVFile(name, column_names, rows): column_names is one comma-separated string,
\* rows a list of such strings.
CSVFile(n, c, r) == [name |-> n, column_names |-> c, rows |-> r]

FileNames == { "a.csv", "b.csv" }

\* The header lines and the data rows of the files drawn: "a" or "a,b", and for
\* row i the string "i,x".
Headers == { << "a" >>, << "a", ",", "b" >> }

Row(i) == << ToString(i), ",", "x" >>

\* The files of name n, by header and number of rows.
CSVFiles(n) ==
    { CSVFile(n, h, [i \in 1..k |-> Row(i)]) : h \in Headers, k \in 0..MaxRows }

\* The values of session_state['files']: a dict from filename to CSVFile.
FileDicts ==
    UNION { { d \in [D -> UNION { CSVFiles(n) : n \in D }] : \A n \in D : d[n].name = n } :
            D \in SUBSET FileNames }

\* The rows CSVFile.sample() takes, rows[:10], and those peek_file takes, rows[:11].
SampleRows == 10

PeekRows == 11

\* seq[:n]
Prefix(seq, n) == SubSeq(seq, 1, IF Len(seq) < n THEN Len(seq) ELSE n)

\* ', '.join(x): the elements of x with ", " between them; of a str, its
\* characters with ", " between them.
JoinCommaSpace(x) ==
    IF Len(x) = 0 THEN << >>
    ELSE [k \in 1..(2 * Len(x) - 1) |-> IF k % 2 = 1 THEN x[(k + 1) \div 2] ELSE ", "]

\* CSVFile.sample(): [self.column_names] + self.rows[:10]
sample(f) == << f.column_names >> \o Prefix(f.rows, SampleRows)

\* What a call gives: a str (text), a list of str (lines), or an exception.
ReturnedStr(t) == [raised |-> FALSE, type |-> "str", text |-> t, lines |-> << >>]

ReturnedList(l) == [raised |-> FALSE, type |-> "list", text |-> << >>, lines |-> l]

Raised(e) == [raised |-> TRUE, type |-> e, text |-> << >>, lines |-> << >>]

\* A bug: a missing file is left to raise.
PeekFileUnguarded(fs, filename) ==
    IF fs = None \/ filename \notin DOMAIN Get(fs)
    THEN Raised("KeyError")
    ELSE LET csv_file == Get(fs)[filename] IN
         ReturnedList(<< JoinCommaSpace(csv_file.column_names) >>
                          \o [i \in 1..Len(Prefix(csv_file.rows, PeekRows)) |->
                                 JoinCommaSpace(csv_file.rows[i])])

\* SchemaCriticLoop.peek_file(session_state, filename), fs being
\* session_state['files'] (None: no such key, a KeyError like a missing filename).
peek_file_value(fs, filename) ==
    IF fs = None \/ filename \notin DOMAIN Get(fs)
    THEN ReturnedStr(<< "ERROR: No file with name ", filename, " found." >>)
    ELSE LET csv_file == Get(fs)[filename] IN
         ReturnedList(<< JoinCommaSpace(csv_file.column_names) >>
                          \o [i \in 1..Len(Prefix(csv_file.rows, PeekRows)) |->
                                 JoinCommaSpace(csv_file.rows[i])])

\* The tool before any call, over a session state whose 'files' is of fss.
ToolInit(fss) ==
    /\ files \in fss
    /\ peek_filename = None
    /\ peek_result = None

\* ------------------------------------------------------------------ the initial states
UserIntent == "user-intent-loop"
SchemaProposalKind == "schema-proposal-loop"

TypeOK ==
    /\ sessions \subseteq Sessions
    /\ \A s \in Sessions : iteration[s] \in 0..IterationCap

\* The events there are: signalling.py's module-level USER_SENT_MESSAGE (owner 0)
\* and the one on_files_submit puts into each streamlit session's state.
EventOwners == {0} \cup Sessions

\* The channel before anything was submitted, served by a front end of `fronts`.
ChannelInit(fronts) ==
    /\ frontend \in fronts
    /\ files_submitted = [s \in Sessions |-> FALSE]
    /\ USER_SENT_MESSAGE = [e \in EventOwners |-> FALSE]
    /\ run = [s \in Sessions |-> "none"]
    /\ callback = [s \in Sessions |-> "idle"]
    /\ returned = [s \in Sessions |-> << >>]
    /\ submitted_in_wait = [s \in Sessions |-> FALSE]
    /\ error_shown = [s \in Sessions |-> 0]

\* The sessions ss exist, each running a loop of `kinds`; the session state may
\* already hold a goal of `goals0` (None: the key is absent).
LoopsInitAfter(ss, kinds, goals0, lasts) ==
    /\ sessions = ss
    /\ kind \in [Sessions -> kinds]
    /\ \A s \in Sessions \ ss : kind[s] = UserIntent
    /\ pc = [s \in Sessions |-> "not-started"]
    /\ iteration = [s \in Sessions |-> 0]
    /\ max_iterations \in [Sessions -> 1..MaxIterations]
    /\ \A s \in Sessions : (s \notin ss \/ kind[s] # UserIntent) => max_iterations[s] = 1
    /\ class_last = None
    /\ inst_last \in [Sessions -> lasts]
    /\ \A s \in Sessions \ ss : inst_last[s] = None
    /\ state = [s \in Sessions |-> None]
    /\ step_output = [s \in Sessions |-> None]
    /\ loop_results = [s \in Sessions |-> << >>]
    /\ session_state \in [Sessions ->
          { [State({"orders.csv"}, {"notes.txt"}) EXCEPT !.user_goal = g] : g \in goals0 }]
    /\ \A s \in Sessions \ ss : session_state[s].user_goal = None
    /\ session_state0 = session_state
    /\ messages = [s \in Sessions |-> << >>]
    /\ workflow_input = [s \in Sessions |-> None]
    /\ agent_log = [s \in Sessions |-> << >>]
    /\ wait_count = [s \in Sessions |-> 0]
    /\ goal_writes = [s \in Sessions |-> 0]
    /\ sp_pc = [s \in Sessions |-> "not-started"]
    /\ sp_iteration = [s \in Sessions |-> 0]
    /\ sp_max_iterations \in [Sessions -> 1..MaxIterations]
    /\ sc_max_iterations \in [Sessions -> 1..MaxIterations]
    /\ \A s \in Sessions : (s \notin ss \/ kind[s] # SchemaProposalKind) =>
          (sp_max_iterations[s] = 1 /\ sc_max_iterations[s] = 1)
    /\ sp_last = [s \in Sessions |-> None]
    /\ sp_step_output = [s \in Sessions |-> None]
    /\ sc_pc = [s \in Sessions |-> "not-started"]
    /\ sc_iteration = [s \in Sessions |-> 0]
    /\ sc_outputs = [s \in Sessions |-> << >>]

\* The loops of objects just constructed.
LoopsInit(ss, kinds, goals0) == LoopsInitAfter(ss, kinds, goals0, { None })

\* The loops as above, the sessions served by the flask front end.
InitOf(ss, kinds, goals0) ==
    LoopsInit(ss, kinds, goals0) /\ ChannelInit({"flask"}) /\ ToolInit({None})

\* One session, running either loop, over a fresh session state.
Init == InitOf({1}, {UserIntent, SchemaProposalKind}, {None})

\* ------------------------------------------------------------------ the user intent loop
\* send_message, the user's first message: it is added to session['messages'] and,
\* the list now having length 1, the workflow is run with its content as input;
\* the loop enters its first iteration.
send_message(s) ==
    /\ s \in sessions
    /\ kind[s] = UserIntent
    /\ pc[s] = "not-started"
    /\ messages' = [messages EXCEPT ![s] = Append(@, Message("user", Text(TriggerText(s))))]
    /\ workflow_input' = [workflow_input EXCEPT ![s] = Some(TriggerText(s))]
    /\ iteration' = [iteration EXCEPT ![s] = 1]
    /\ pc' = [pc EXCEPT ![s] = "get-user-input"]
    /\ UNCHANGED << max_iterations, class_last, inst_last, state, step_output,
                    loop_results, agent_log, goal_writes >>
    /\ UNCHANGED << sessions, kind, session_state, session_state0, wait_count >>
    /\ UNCHANGED << spVars, scVars, chVars >>
    /\ UNCHANGED toolVars

\* get_user_input up to its await: reads the carry-over; without one it returns the
\* initial state at once, with one it calls get_latest_user_message and waits.
get_user_input(s) ==
    /\ s \in sessions
    /\ pc[s] = "get-user-input"
    /\ LET st == last_iteration_output_content(s) IN
       IF st = None
       THEN /\ step_output' = [step_output EXCEPT ![s] =
                                  Some(InitialLoopState(Get(workflow_input[s])))]
            /\ pc' = [pc EXCEPT ![s] = "propose-user-goal"]
            /\ UNCHANGED << state, wait_count >>
       ELSE /\ state' = [state EXCEPT ![s] = st]
            /\ wait_count' = [wait_count EXCEPT ![s] = @ + 1]
            /\ pc' = [pc EXCEPT ![s] = "waiting"]
            /\ UNCHANGED step_output
    /\ UNCHANGED << iteration, max_iterations, class_last, inst_last, loop_results,
                    agent_log, goal_writes >>
    /\ UNCHANGED << sessions, kind, session_state, session_state0, messages,
                    workflow_input >>
    /\ UNCHANGED << spVars, scVars, chVars >>
    /\ UNCHANGED toolVars

\* get_latest_user_message returns (the human typed a line) and get_user_input
\* returns the carried-over state with the message added.
get_latest_user_message(s) ==
    /\ s \in sessions
    /\ pc[s] = "waiting"
    /\ \E t \in UserTexts :
         step_output' = [step_output EXCEPT ![s] =
                            Some(NextLoopState(Get(state[s]), Message("user", Text(t))))]
    /\ state' = [state EXCEPT ![s] = None]
    /\ pc' = [pc EXCEPT ![s] = "propose-user-goal"]
    /\ UNCHANGED << iteration, max_iterations, class_last, inst_last, loop_results,
                    agent_log, goal_writes >>
    /\ UNCHANGED << envVars, spVars, scVars, chVars >>
    /\ UNCHANGED toolVars

\* propose_user_goal from the agent's answer on: the agent message is written to the
\* session, the goal is committed when approved (which raises on a None proposal,
\* ending the run), and the output becomes the carry-over.
propose_user_goal(s) ==
    /\ s \in sessions
    /\ pc[s] = "propose-user-goal"
    /\ \E response \in AgentOutputSchema :
         LET st == Get(step_output[s])
             output == ProposeOutput(st, response)
             stored == StoreLastIterationOutput(s, output)
         IN
         /\ agent_log' = [agent_log EXCEPT ![s] = Append(@, response)]
         /\ messages' = [messages EXCEPT ![s] =
                            Append(@, Message("agent", AgentMessage(response)))]
         /\ IF RaisesOnWrite(response)
            THEN /\ pc' = [pc EXCEPT ![s] = "FAILED"]
                 /\ UNCHANGED << session_state, goal_writes, class_last, inst_last,
                                 loop_results >>
            ELSE /\ IF WritesGoal(response)
                    THEN /\ session_state' = [session_state EXCEPT ![s] =
                                                 SetUserGoal(@, response)]
                         /\ goal_writes' = [goal_writes EXCEPT ![s] = @ + 1]
                    ELSE UNCHANGED << session_state, goal_writes >>
                 /\ class_last' = stored.cls
                 /\ inst_last' = stored.inst
                 /\ loop_results' = [loop_results EXCEPT ![s] = Append(@, output)]
                 /\ pc' = [pc EXCEPT ![s] = "end-condition"]
    /\ step_output' = [step_output EXCEPT ![s] = None]
    /\ UNCHANGED << iteration, max_iterations, state >>
    /\ UNCHANGED << sessions, kind, session_state0, workflow_input, wait_count >>
    /\ UNCHANGED << spVars, scVars, chVars >>
    /\ UNCHANGED toolVars

\* The loop after a full pass: it stops when end_condition holds of the last step's
\* output, runs the next iteration while the budget lasts, and stops otherwise.
loop_end_of_iteration(s) ==
    /\ s \in sessions
    /\ pc[s] = "end-condition"
    /\ LET out == loop_results[s][Len(loop_results[s])] IN
       IF end_condition(out)
       THEN /\ pc' = [pc EXCEPT ![s] = "APPROVED"]
            /\ UNCHANGED iteration
       ELSE IF MayIterate(iteration[s], max_iterations[s])
       THEN /\ iteration[s] < IterationCap
            /\ pc' = [pc EXCEPT ![s] = "get-user-input"]
            /\ iteration' = [iteration EXCEPT ![s] = @ + 1]
       ELSE /\ pc' = [pc EXCEPT ![s] = "EXHAUSTED"]
            /\ UNCHANGED iteration
    /\ UNCHANGED << max_iterations, class_last, inst_last, state, step_output,
                    loop_results, agent_log, goal_writes >>
    /\ UNCHANGED << envVars, spVars, scVars, chVars >>
    /\ UNCHANGED toolVars

\* ------------------------------------------------------------------ the schema proposal loop
\* A workflow holding the schema proposal loop is run: the loop enters its
\* first iteration.  (SchemaProposalLoop.__init__ builds its nested loop with
\* SchemaCriticLoop(), without the files and user_goal that constructor requires;
\* the loop is taken here as constructed with them.)
run_schema_proposal_loop(s) ==
    /\ s \in sessions
    /\ kind[s] = SchemaProposalKind
    /\ sp_pc[s] = "not-started"
    /\ workflow_input' = [workflow_input EXCEPT ![s] = Some(TriggerText(s))]
    /\ sp_iteration' = [sp_iteration EXCEPT ![s] = 1]
    /\ sp_pc' = [sp_pc EXCEPT ![s] = "get-user-input"]
    /\ UNCHANGED << sp_max_iterations, sp_last, sp_step_output >>
    /\ UNCHANGED << sessions, kind, session_state, session_state0, messages, wait_count >>
    /\ UNCHANGED << uiVars, scVars, chVars >>
    /\ UNCHANGED toolVars

\* SchemaProposalLoop.get_user_input, then the loop's second step starts: the nested
\* critic loop enters its first iteration.  Nothing assigns this class's
\* last_iteration_output_content, so the first branch is the one taken.
SchemaProposalLoop_get_user_input(s) ==
    /\ s \in sessions
    /\ sp_pc[s] = "get-user-input"
    /\ IF sp_last[s] = None
       THEN /\ sp_step_output' = [sp_step_output EXCEPT ![s] =
                 Some(SchemaProposalLoop_get_user_input_output(
                          None, None, Get(workflow_input[s]), None))]
            /\ UNCHANGED wait_count
       ELSE /\ \E t \in UserTexts :
                 sp_step_output' = [sp_step_output EXCEPT ![s] =
                     Some(SchemaProposalLoop_get_user_input_output(
                              sp_last[s], Get(sp_last[s]), Get(workflow_input[s]),
                              Message("user", Text(t))))]
            /\ wait_count' = [wait_count EXCEPT ![s] = @ + 1]
    /\ sp_pc' = [sp_pc EXCEPT ![s] = "critic-loop"]
    /\ sc_pc' = [sc_pc EXCEPT ![s] = "propose-schema"]
    /\ sc_iteration' = [sc_iteration EXCEPT ![s] = 1]
    /\ sc_outputs' = [sc_outputs EXCEPT ![s] = << >>]
    /\ UNCHANGED << sp_iteration, sp_max_iterations, sp_last, sc_max_iterations >>
    /\ UNCHANGED << sessions, kind, session_state, session_state0, messages,
                    workflow_input >>
    /\ UNCHANGED << uiVars, chVars >>
    /\ UNCHANGED toolVars

\* Step(name='propose-schema', agent=self.proposal_agent): the proposal agent answers.
propose_schema_step(s) ==
    /\ s \in sessions
    /\ sc_pc[s] = "propose-schema"
    /\ \E proposal \in SchemaProposal :
         sc_outputs' = [sc_outputs EXCEPT ![s] = << StepOutput(proposal) >>]
    /\ sc_pc' = [sc_pc EXCEPT ![s] = "critique-schema"]
    /\ UNCHANGED << sc_iteration, sc_max_iterations >>
    /\ UNCHANGED << uiVars, spVars, envVars, chVars >>
    /\ UNCHANGED toolVars

\* Step(name='critique-schema', agent=self.critic_agent): the critic agent answers.
critique_schema_step(s) ==
    /\ s \in sessions
    /\ sc_pc[s] = "critique-schema"
    /\ \E feedback \in CriticFeedback :
         sc_outputs' = [sc_outputs EXCEPT ![s] = Append(@, StepOutput(Str(feedback)))]
    /\ sc_pc' = [sc_pc EXCEPT ![s] = "end-condition"]
    /\ UNCHANGED << sc_iteration, sc_max_iterations >>
    /\ UNCHANGED << uiVars, spVars, envVars, chVars >>
    /\ UNCHANGED toolVars

\* The critic loop after a full pass.  Its end_condition raises; whether the engine
\* lets the exception end the run or logs it and goes on is the engine's choice, and
\* both are taken.  A loop that stops hands its last step's output to the outer loop.
critic_loop_end_of_iteration(s) ==
    /\ s \in sessions
    /\ sc_pc[s] = "end-condition"
    /\ LET ec == SchemaCriticLoop_end_condition(sc_outputs[s]) IN
       \E swallowed \in BOOLEAN :
         IF ec.raised /\ ~swallowed
         THEN /\ sc_pc' = [sc_pc EXCEPT ![s] = "FAILED"]
              /\ sp_pc' = [sp_pc EXCEPT ![s] = "FAILED"]
              /\ UNCHANGED sc_iteration
         ELSE IF ec.value
         THEN /\ sc_pc' = [sc_pc EXCEPT ![s] = "APPROVED"]
              /\ sp_pc' = [sp_pc EXCEPT ![s] = "end-condition"]
              /\ UNCHANGED sc_iteration
         ELSE IF MayIterate(sc_iteration[s], sc_max_iterations[s])
         THEN /\ sc_iteration[s] < IterationCap
              /\ sc_pc' = [sc_pc EXCEPT ![s] = "propose-schema"]
              /\ sc_iteration' = [sc_iteration EXCEPT ![s] = @ + 1]
              /\ UNCHANGED sp_pc
         ELSE /\ sc_pc' = [sc_pc EXCEPT ![s] = "EXHAUSTED"]
              /\ sp_pc' = [sp_pc EXCEPT ![s] = "end-condition"]
              /\ UNCHANGED sc_iteration
    /\ UNCHANGED << sp_iteration, sp_max_iterations, sp_last, sp_step_output,
                    sc_max_iterations, sc_outputs >>
    /\ UNCHANGED << uiVars, envVars, chVars >>
    /\ UNCHANGED toolVars

\* The schema proposal loop after a full pass; its end_condition reads .approved off
\* the critic loop's output.
schema_proposal_loop_end_of_iteration(s) ==
    /\ s \in sessions
    /\ sp_pc[s] = "end-condition"
    /\ LET ec == SchemaProposalLoop_end_condition(sc_outputs[s][Len(sc_outputs[s])]) IN
       \E swallowed \in BOOLEAN :
         IF ec.raised /\ ~swallowed
         THEN /\ sp_pc' = [sp_pc EXCEPT ![s] = "FAILED"]
              /\ UNCHANGED sp_iteration
         ELSE IF ec.value
         THEN /\ sp_pc' = [sp_pc EXCEPT ![s] = "APPROVED"]
              /\ UNCHANGED sp_iteration
         ELSE IF MayIterate(sp_iteration[s], sp_max_iterations[s])
         THEN /\ sp_iteration[s] < IterationCap
              /\ sp_pc' = [sp_pc EXCEPT ![s] = "get-user-input"]
              /\ sp_iteration' = [sp_iteration EXCEPT ![s] = @ + 1]
         ELSE /\ sp_pc' = [sp_pc EXCEPT ![s] = "EXHAUSTED"]
              /\ UNCHANGED sp_iteration
    /\ sp_step_output' = [sp_step_output EXCEPT ![s] = None]
    /\ UNCHANGED << sp_max_iterations, sp_last >>
    /\ UNCHANGED << uiVars, scVars, envVars, chVars >>
    /\ UNCHANGED toolVars

\* ------------------------------------------------------------------ the message channel
\* The event-based channel (signalling.py for the flask server, streamlit_utils.py
\* and streamlit_callbacks.py for the streamlit app) and what uses it: the handlers
\* of the front end, and the workflow run the first message starts, which writes
\* agent messages and asks for the human's next message in any order.
\*
\* The sender of a message: server.py and signalling.py write 'user' and 'agent',
\* the streamlit callbacks the roles "human" and "ai".
HumanSender == IF frontend = "flask" THEN "user" ELSE "human"

AgentSender == IF frontend = "flask" THEN "agent" ELSE "ai"

\* The messages of a list that the human submitted, and those an agent wrote.
HumanMessages(msgs) == { k \in 1..Len(msgs) : msgs[k].sender = HumanSender }

AgentMessages(msgs) == { k \in 1..Len(msgs) : msgs[k].sender = AgentSender }

\* What is typed next in session s: a text no other message has.
Typed(s) == Text(<< s, Len(messages[s]) + 1 >>)

\* With two sessions interleaving, each submits and writes one message less.
SubmissionLimit == IF Cardinality(sessions) = 1 THEN MaxSubmissions ELSE MaxSubmissions - 1

AgentWriteLimit == IF Cardinality(sessions) = 1 THEN MaxAgentWrites ELSE MaxAgentWrites - 1

\* A bug: the sessions of the streamlit app wait on one event.
EventShared(s) == 0

\* The event get_latest_user_message waits on and clears: signalling.py's
\* module-level USER_SENT_MESSAGE, or st.session_state.USER_SENT_MESSAGE.
EventOf(s) == IF frontend = "flask" THEN 0 ELSE s

\* session['messages'][-1], st.session_state.messages[-1]
LatestMessage(msgs) == msgs[Len(msgs)]

\* upload_files (flask): the session gets its file lists and an empty message list.
\* (Taken once per session.)
upload_files(s) ==
    /\ s \in sessions
    /\ frontend = "flask"
    /\ ~files_submitted[s]
    /\ files_submitted' = [files_submitted EXCEPT ![s] = TRUE]
    /\ messages' = [messages EXCEPT ![s] = << >>]
    /\ UNCHANGED << frontend, USER_SENT_MESSAGE, run, callback, returned,
                    submitted_in_wait >>
    /\ UNCHANGED << sessions, kind, session_state, session_state0, workflow_input,
                    wait_count >>
    /\ UNCHANGED << uiVars, spVars, scVars >>
    /\ UNCHANGED error_shown
    /\ UNCHANGED toolVars

\* on_files_submit (streamlit): the session gets its files, its workflow and a
\* fresh event of its own.  (Taken once per session.)
on_files_submit(s) ==
    /\ s \in sessions
    /\ frontend = "streamlit"
    /\ ~files_submitted[s]
    /\ files_submitted' = [files_submitted EXCEPT ![s] = TRUE]
    /\ USER_SENT_MESSAGE' = [USER_SENT_MESSAGE EXCEPT ![EventOf(s)] = FALSE]
    /\ UNCHANGED << frontend, run, callback, returned, submitted_in_wait >>
    /\ UNCHANGED envVars
    /\ UNCHANGED << uiVars, spVars, scVars >>
    /\ UNCHANGED error_shown
    /\ UNCHANGED toolVars

\* send_message (flask), as a request of its own: the message is added to
\* session['messages']; the first one starts the workflow run.  Nothing here, or
\* anywhere in the server, sets USER_SENT_MESSAGE.
send_message_request(s) ==
    /\ s \in sessions
    /\ frontend = "flask"
    /\ files_submitted[s]
    /\ Cardinality(HumanMessages(messages[s])) < SubmissionLimit
    /\ messages' = [messages EXCEPT ![s] = Append(@, Message(HumanSender, Typed(s)))]
    /\ run' = IF Len(messages[s]) = 0 THEN [run EXCEPT ![s] = "running"] ELSE run
    /\ submitted_in_wait' =
          IF run[s] = "waiting" THEN [submitted_in_wait EXCEPT ![s] = TRUE]
          ELSE submitted_in_wait
    /\ UNCHANGED << frontend, files_submitted, USER_SENT_MESSAGE, callback, returned >>
    /\ UNCHANGED << sessions, kind, session_state, session_state0, workflow_input,
                    wait_count >>
    /\ UNCHANGED << uiVars, spVars, scVars >>
    /\ UNCHANGED error_shown
    /\ UNCHANGED toolVars

\* on_msg_submit (streamlit): the message is added to st.session_state.messages.
\* The first one runs the workflow inside the callback, which reaches its last
\* line, USER_SENT_MESSAGE.set(), when the run is over; a later one sets the event
\* at once.  (The callback is taken as running while an earlier one is inside the
\* workflow run, and its rendering of the history as succeeding, as it does for
\* messages that have a role attribute; on_msg_submit_raises is the callback for
\* the Message of schema.py.)
on_msg_submit(s) ==
    /\ s \in sessions
    /\ frontend = "streamlit"
    /\ files_submitted[s]
    /\ Cardinality(HumanMessages(messages[s])) < SubmissionLimit
    /\ messages' = [messages EXCEPT ![s] = Append(@, Message(HumanSender, Typed(s)))]
    /\ IF Len(messages[s]) = 0
       THEN /\ run' = [run EXCEPT ![s] = "running"]
            /\ callback' = [callback EXCEPT ![s] = "in-run"]
            /\ UNCHANGED USER_SENT_MESSAGE
       ELSE /\ USER_SENT_MESSAGE' = [USER_SENT_MESSAGE EXCEPT ![EventOf(s)] = TRUE]
            /\ UNCHANGED << run, callback >>
    /\ submitted_in_wait' =
          IF run[s] = "waiting" THEN [submitted_in_wait EXCEPT ![s] = TRUE]
          ELSE submitted_in_wait
    /\ UNCHANGED << frontend, files_submitted, returned >>
    /\ UNCHANGED << sessions, kind, session_state, session_state0, workflow_input,
                    wait_count >>
    /\ UNCHANGED << uiVars, spVars, scVars >>
    /\ UNCHANGED error_shown
    /\ UNCHANGED toolVars

\* A bug: a message submitted before any file is taken like any other.
OnMsgSubmitUnchecked(s) ==
    /\ s \in sessions
    /\ frontend = "streamlit"
    /\ ~files_submitted[s]
    /\ Cardinality(HumanMessages(messages[s])) < SubmissionLimit
    /\ messages' = [messages EXCEPT ![s] = Append(@, Message(HumanSender, Typed(s)))]
    /\ USER_SENT_MESSAGE' = [USER_SENT_MESSAGE EXCEPT ![EventOf(s)] = TRUE]
    /\ UNCHANGED << frontend, files_submitted, run, callback, returned, submitted_in_wait,
                    error_shown >>
    /\ UNCHANGED << sessions, kind, session_state, session_state0, workflow_input,
                    wait_count >>
    /\ UNCHANGED << uiVars, spVars, scVars >>
    /\ UNCHANGED toolVars

\* on_msg_submit (streamlit) before any file was submitted: st.session_state has
\* no csv_files (or both lists are empty), the error is shown and the callback
\* returns.
on_msg_submit_no_files(s) ==
    /\ s \in sessions
    /\ frontend = "streamlit"
    /\ ~files_submitted[s]
    /\ error_shown[s] < SubmissionLimit
    /\ error_shown' = [error_shown EXCEPT ![s] = @ + 1]
    /\ UNCHANGED << frontend, files_submitted, USER_SENT_MESSAGE, run, callback, returned,
                    submitted_in_wait >>
    /\ UNCHANGED envVars
    /\ UNCHANGED << uiVars, spVars, scVars >>
    /\ UNCHANGED toolVars

\* on_msg_submit (streamlit) with the Message of schema.py, a TypedDict: the
\* message is added to st.session_state.messages, and the rendering of the history
\* reads message.role off a dict and raises; the callback ends there, before the
\* workflow is run and before the event is set.
on_msg_submit_raises(s) ==
    /\ s \in sessions
    /\ frontend = "streamlit"
    /\ files_submitted[s]
    /\ Cardinality(HumanMessages(messages[s])) < SubmissionLimit
    /\ messages' = [messages EXCEPT ![s] = Append(@, Message(HumanSender, Typed(s)))]
    /\ submitted_in_wait' =
          IF run[s] = "waiting" THEN [submitted_in_wait EXCEPT ![s] = TRUE]
          ELSE submitted_in_wait
    /\ UNCHANGED << frontend, files_submitted, USER_SENT_MESSAGE, run, callback, returned,
                    error_shown >>
    /\ UNCHANGED << sessions, kind, session_state, session_state0, workflow_input,
                    wait_count >>
    /\ UNCHANGED << uiVars, spVars, scVars >>
    /\ UNCHANGED toolVars

\* on_msg_submit's last line in the callback that ran the workflow: the run is
\* over, the event is set.
on_msg_submit_after_run(s) ==
    /\ s \in sessions
    /\ callback[s] = "in-run"
    /\ run[s] = "done"
    /\ USER_SENT_MESSAGE' = [USER_SENT_MESSAGE EXCEPT ![EventOf(s)] = TRUE]
    /\ callback' = [callback EXCEPT ![s] = "idle"]
    /\ UNCHANGED << frontend, files_submitted, run, returned, submitted_in_wait >>
    /\ UNCHANGED envVars
    /\ UNCHANGED << uiVars, spVars, scVars >>
    /\ UNCHANGED error_shown
    /\ UNCHANGED toolVars

\* write_agent_message_to_session (signalling.py), write_to_streamlit: the running
\* workflow adds an agent message to the session's message list.
write_agent_message_to_session(s) ==
    /\ s \in sessions
    /\ run[s] = "running"
    /\ Cardinality(AgentMessages(messages[s])) < AgentWriteLimit
    /\ messages' = [messages EXCEPT ![s] = Append(@, Message(AgentSender, Typed(s)))]
    /\ UNCHANGED chVars
    /\ UNCHANGED << sessions, kind, session_state, session_state0, workflow_input,
                    wait_count >>
    /\ UNCHANGED << uiVars, spVars, scVars >>
    /\ UNCHANGED toolVars

\* get_latest_user_message up to its await: the running workflow asks for the
\* human's next message.
get_latest_user_message_wait(s) ==
    /\ s \in sessions
    /\ run[s] = "running"
    /\ run' = [run EXCEPT ![s] = "waiting"]
    /\ UNCHANGED << frontend, files_submitted, USER_SENT_MESSAGE, callback, returned,
                    submitted_in_wait >>
    /\ UNCHANGED envVars
    /\ UNCHANGED << uiVars, spVars, scVars >>
    /\ UNCHANGED error_shown
    /\ UNCHANGED toolVars

\* get_latest_user_message from its await on: the event is set, the last message
\* of the session's list is taken, the event is cleared, the message is returned.
get_latest_user_message_return(s) ==
    /\ s \in sessions
    /\ run[s] = "waiting"
    /\ USER_SENT_MESSAGE[EventOf(s)]
    /\ returned' = [returned EXCEPT ![s] = Append(@, LatestMessage(messages[s]))]
    /\ USER_SENT_MESSAGE' = [USER_SENT_MESSAGE EXCEPT ![EventOf(s)] = FALSE]
    /\ run' = [run EXCEPT ![s] = "running"]
    /\ submitted_in_wait' = [submitted_in_wait EXCEPT ![s] = FALSE]
    /\ UNCHANGED << frontend, files_submitted, callback >>
    /\ UNCHANGED envVars
    /\ UNCHANGED << uiVars, spVars, scVars >>
    /\ UNCHANGED error_shown
    /\ UNCHANGED toolVars

\* workflow.run returns: the workflow's loop stopped.
workflow_run_returns(s) ==
    /\ s \in sessions
    /\ run[s] = "running"
    /\ run' = [run EXCEPT ![s] = "done"]
    /\ UNCHANGED << frontend, files_submitted, USER_SENT_MESSAGE, callback, returned,
                    submitted_in_wait >>
    /\ UNCHANGED envVars
    /\ UNCHANGED << uiVars, spVars, scVars >>
    /\ UNCHANGED error_shown
    /\ UNCHANGED toolVars

\* ------------------------------------------------------------------ the file tool
\* An agent calls its tool peek_file with a filename.
peek_file(filename) ==
    /\ peek_filename' = Some(filename)
    /\ peek_result' = Some(peek_file_value(files, filename))
    /\ UNCHANGED files
    /\ UNCHANGED << uiVars, spVars, scVars, envVars, chVars >>

\* ------------------------------------------------------------------ the specifications
UserIntentStep(s) ==
    \/ send_message(s)
    \/ get_user_input(s)
    \/ get_latest_user_message(s)
    \/ propose_user_goal(s)
    \/ loop_end_of_iteration(s)

SchemaStep(s) ==
    \/ run_schema_proposal_loop(s)
    \/ SchemaProposalLoop_get_user_input(s)
    \/ propose_schema_step(s)
    \/ critique_schema_step(s)
    \/ critic_loop_end_of_iteration(s)
    \/ schema_proposal_loop_end_of_iteration(s)

Next == \E s \in Sessions : UserIntentStep(s) \/ SchemaStep(s)

NextUserIntent == \E s \in Sessions : UserIntentStep(s)

\* One session running either loop.
Spec == Init /\ [][Next]_vars

\* The same, every capability call returning, the human answering every wait and
\* the engine taking every step that is due.
LiveSpec ==
    /\ Init
    /\ [][Next]_vars
    /\ \A s \in Sessions : WF_vars(UserIntentStep(s) \/ SchemaStep(s))

\* Two sessions, each with a user intent loop of its own, their steps interleaved.
InitTwo == InitOf({1, 2}, {UserIntent}, {None})

SpecTwo == InitTwo /\ [][NextUserIntent]_vars

\* One user intent loop run over a session state that may already hold an approved goal.
InitPreset == InitOf({1}, {UserIntent}, {None} \cup { Some(g) : g \in Goals })

SpecPreset == InitPreset /\ [][NextUserIntent]_vars

\* What a run of one iteration leaves in self.last_iteration_output_content.
FirstRunOutputs ==
    { ProposeOutput(InitialLoopState(TriggerText(1)), response) :
        response \in { r \in AgentOutputSchema : ~RaisesOnWrite(r) } }

\* A KnowledgeGraphWorkflow whose run() is called a second time: the loop object
\* built in __init__ still holds the output of the first run, and session_state
\* the goal if that run approved one.
InitSecondRun ==
    /\ LoopsInitAfter({1}, {UserIntent}, {None} \cup { Some(g) : g \in Goals },
                      { None } \cup { Some(o) : o \in FirstRunOutputs })
    /\ inst_last[1] # None
    /\ session_state[1].user_goal =
           IF Get(inst_last[1]).goal_approved THEN Get(inst_last[1]).proposed_goal ELSE None
    /\ ChannelInit({"flask"})
    /\ ToolInit({None})

SpecSecondRun == InitSecondRun /\ [][NextUserIntent]_vars

\* The front end's handlers.
FrontEndStep(s) ==
    \/ upload_files(s)
    \/ on_files_submit(s)
    \/ send_message_request(s)
    \/ on_msg_submit(s)
    \/ on_msg_submit_no_files(s)
    \/ on_msg_submit_raises(s)
    \/ on_msg_submit_after_run(s)

\* The workflow run's steps on the channel.
WorkflowStep(s) ==
    \/ write_agent_message_to_session(s)
    \/ get_latest_user_message_wait(s)
    \/ get_latest_user_message_return(s)
    \/ workflow_run_returns(s)

NextChannel == \E s \in Sessions : FrontEndStep(s) \/ WorkflowStep(s)

\* One session on the event-based channel, served by either front end.
InitChannel ==
    /\ LoopsInit({1}, {UserIntent}, {None})
    /\ \A s \in Sessions : max_iterations[s] = 1
    /\ ChannelInit({"flask", "streamlit"})
    /\ ToolInit({None})

SpecChannel == InitChannel /\ [][NextChannel]_vars

\* The same, the workflow taking every step that is due: a wait whose event is
\* set returns.
LiveSpecChannel ==
    /\ InitChannel
    /\ [][NextChannel]_vars
    /\ \A s \in Sessions : WF_vars(WorkflowStep(s))

\* Two concurrent sessions on the event-based channel.
InitChannelTwo ==
    /\ LoopsInit({1, 2}, {UserIntent}, {None})
    /\ \A s \in Sessions : max_iterations[s] = 1
    /\ ChannelInit({"flask", "streamlit"})
    /\ ToolInit({None})

SpecChannelTwo == InitChannelTwo /\ [][NextChannel]_vars

\* The filenames an agent asks for: those of the session's files and one more.
AskedNames == FileNames \cup { "c.csv" }

NextTool == \E filename \in AskedNames : peek_file(filename)

\* The agents' calls of peek_file over every session state drawn.
InitTool ==
    /\ LoopsInit({1}, {UserIntent}, {None})
    /\ \A s \in Sessions : max_iterations[s] = 1
    /\ ChannelInit({"flask"})
    /\ ToolInit({None} \cup { Some(d) : d \in FileDicts })

SpecTool == InitTool /\ [][NextTool]_vars

\* ------------------------------------------------------------------ the claims
Range(seq) == { seq[k] : k \in 1..Len(seq) }

Last(seq) == seq[Len(seq)]

Stopped == { "APPROVED", "EXHAUSTED", "FAILED" }

\* C1: in every loop (user intent, schema proposal, schema critic) and every run,
\* the iterations run never exceed the loop's max_iterations, whatever the
\* capability and the human answer.
C1_IterationsWithinBudget ==
    \A s \in sessions :
        /\ iteration[s] <= max_iterations[s]
        /\ Len(loop_results[s]) <= max_iterations[s]
        /\ Len(agent_log[s]) <= max_iterations[s]
        /\ sp_iteration[s] <= sp_max_iterations[s]
        /\ sc_iteration[s] <= sc_max_iterations[s]

\* A schema proposal loop and its critic loop both at the end of their budgets.
C1_Witness ==
    \E s \in sessions :
        /\ sp_pc[s] = "EXHAUSTED"
        /\ sp_iteration[s] = MaxIterations
        /\ sc_iteration[s] = MaxIterations

\* C2 as stated, of the user intent loop: every run eventually stops in APPROVED
\* or in EXHAUSTED.
C2_Original ==
    \A s \in Sessions :
        (pc[s] # "not-started") ~> (pc[s] \in { "APPROVED", "EXHAUSTED" })

\* C2 as amended: every run of a loop eventually stops, in APPROVED, in EXHAUSTED or
\* failed by an exception (the capability approving a None proposal, an
\* end_condition raising); it never runs or waits forever.
C2_EventuallyStops ==
    \A s \in Sessions :
        /\ (pc[s] # "not-started") ~> (pc[s] \in Stopped)
        /\ (sp_pc[s] # "not-started") ~> (sp_pc[s] \in Stopped)

\* A run that waited for the human twice and then stopped approved.
C2_Witness ==
    \E s \in sessions : pc[s] = "APPROVED" /\ wait_count[s] = 2

\* C3: in the user intent loop, for every iteration k > 1, the state get-user-input
\* reads is the LoopState propose-user-goal produced in iteration k-1: the slot
\* holds the latest terminal output, replaced at the end of every iteration, and
\* the output of get-user-input is built on it.
C3_CarryOverThreaded ==
    \A s \in sessions :
        /\ loop_results[s] # << >> =>
              last_iteration_output_content(s) = Some(Last(loop_results[s]))
        /\ pc[s] = "waiting" =>
              /\ iteration[s] > 1
              /\ state[s] = Some(loop_results[s][iteration[s] - 1])
        /\ (iteration[s] > 1 /\ pc[s] = "propose-user-goal") =>
              LET prev == loop_results[s][iteration[s] - 1]
                  out == Get(step_output[s])
              IN /\ Len(out.chat_history) = Len(prev.chat_history) + 1
                 /\ SubSeq(out.chat_history, 1, Len(prev.chat_history)) = prev.chat_history
                 /\ out.proposed_goal = prev.proposed_goal

\* The third iteration's get-user-input waiting, the slot having been replaced once.
C3_Witness ==
    \E s \in sessions : pc[s] = "waiting" /\ iteration[s] = 3

\* C4 as stated: in the schema proposal loop, in every iteration k > 1,
\* get-user-input obtains the latest human message and adds it to the history of
\* the state the previous iteration ended with; only iteration 1 builds the state
\* from the initial prompt.
C4_Original ==
    \A s \in sessions :
        (sp_iteration[s] > 1 /\ sp_step_output[s] # None) =>
            /\ wait_count[s] >= sp_iteration[s] - 1
            /\ Len(Get(sp_step_output[s]).chat_history) > 1
            /\ Last(Get(sp_step_output[s]).chat_history).sender = "user"

\* C5: on the first iteration of the user intent loop get-user-input does not wait
\* on the message channel, and outputs a LoopState whose history is the one message
\* (user, trigger input), with no proposal and goal_approved false.
C5_FirstIteration ==
    \A s \in sessions :
        /\ (iteration[s] = 1 /\ pc[s] = "propose-user-goal") =>
              /\ wait_count[s] = 0
              /\ step_output[s] =
                   << [ chat_history |->
                          << [ sender |-> "user",
                               content |-> [ text |-> Get(workflow_input[s]),
                                             goal_block |-> << >> ] ] >>,
                        proposed_goal |-> << >>,
                        goal_approved |-> FALSE ] >>
        /\ pc[s] = "waiting" => iteration[s] > 1

\* The first iteration's get-user-input has returned.
C5_Witness ==
    \E s \in sessions :
        iteration[s] = 1 /\ pc[s] = "propose-user-goal" /\ workflow_input[s] # None

\* C6: of two loop instances of two sessions, interleaved, neither reads a
\* carry-over the other wrote: an instance sees none before its own first terminal
\* step, and what it sees or has read is an output of its own.
C6_InstanceScoped ==
    \A s \in sessions :
        /\ loop_results[s] = << >> => last_iteration_output_content(s) = None
        /\ last_iteration_output_content(s) # None =>
              Get(last_iteration_output_content(s)) \in Range(loop_results[s])
        /\ state[s] # None => Get(state[s]) \in Range(loop_results[s])
        /\ (pc[s] = "propose-user-goal" /\ iteration[s] = 1) =>
              Get(step_output[s]).chat_history =
                  << Message("user", Text(TriggerText(s))) >>

\* One instance has written its carry-over; the other has since run its first
\* get-user-input.
C6_Witness ==
    \E a \in sessions, b \in sessions :
        /\ a # b
        /\ inst_last[a] # None
        /\ loop_results[b] = << >>
        /\ pc[b] = "propose-user-goal"

\* C7: during one run of the user intent loop session_state['user_goal'] is written
\* at most once, and only by propose-user-goal; no other step changes session state.
C7_GoalWrittenOnce ==
    /\ [](\A s \in Sessions : goal_writes[s] <= 1)
    /\ [][\A s \in Sessions :
            session_state'[s] # session_state[s] =>
                (pc[s] = "propose-user-goal" /\ goal_writes'[s] = goal_writes[s] + 1)]_vars

\* A run approved in a later iteration: one write, after get-user-input ran twice.
C7_Witness ==
    \E s \in sessions : goal_writes[s] = 1 /\ pc[s] = "APPROVED" /\ iteration[s] >= 2

C9_ChangedOnlyOnApproval ==
    \A s \in sessions :
        /\ (\A k \in 1..Len(loop_results[s]) : ~loop_results[s][k].goal_approved) =>
              session_state[s] = session_state0[s]
        /\ pc[s] = "EXHAUSTED" => session_state[s] = session_state0[s]
        /\ session_state[s].csv_files = session_state0[s].csv_files
        /\ session_state[s].unstructured_files = session_state0[s].unstructured_files

\* A run that ended EXHAUSTED with a goal proposed, and none committed.
C9_Witness ==
    \E s \in sessions :
        /\ pc[s] = "EXHAUSTED"
        /\ Last(loop_results[s]).proposed_goal # None
        /\ session_state[s].user_goal = None

\* C10: with max_iterations N >= 1 and a capability that never returns an approved
\* decision, the user intent loop runs exactly N iterations and then stops EXHAUSTED.
C10_ExactlyNIterations ==
    \A s \in sessions :
        /\ pc[s] = "EXHAUSTED" =>
              /\ iteration[s] = max_iterations[s]
              /\ Len(loop_results[s]) = max_iterations[s]
              /\ Len(agent_log[s]) = max_iterations[s]
        /\ ( /\ pc[s] \in Stopped
             /\ \A k \in 1..Len(agent_log[s]) : ~agent_log[s][k].goal_approved ) =>
              pc[s] = "EXHAUSTED"

\* Three iterations of three run, none approved.
C10_Witness ==
    \E s \in sessions :
        pc[s] = "EXHAUSTED" /\ max_iterations[s] = 3 /\ Len(agent_log[s]) = 3

\* An approval of an absent proposal: goal_approved true over a None proposed_goal.
ApprovesAbsent(x) == x.goal_approved /\ x.proposed_goal = None

\* C11: no step output and no carry-over of the user intent loop has goal_approved
\* true together with a None proposed_goal, and session_state['user_goal'], once
\* set, is the goal of a proposal the capability approved, never of a None one;
\* also when the capability answers goal_approved true with proposed_goal None.
C11_NoApprovalOfAbsentProposal ==
    \A s \in sessions :
        /\ \A k \in 1..Len(loop_results[s]) : ~ApprovesAbsent(loop_results[s][k])
        /\ step_output[s] # None => ~ApprovesAbsent(Get(step_output[s]))
        /\ state[s] # None => ~ApprovesAbsent(Get(state[s]))
        /\ last_iteration_output_content(s) # None =>
              ~ApprovesAbsent(Get(last_iteration_output_content(s)))
        /\ session_state[s].user_goal # None =>
              \E k \in 1..Len(agent_log[s]) :
                  /\ agent_log[s][k].goal_approved
                  /\ agent_log[s][k].proposed_goal # None
                  /\ session_state[s].user_goal =
                       << [ kind_of_graph |-> agent_log[s][k].proposed_goal[1].kind_of_graph,
                            description |-> agent_log[s][k].proposed_goal[1].description ] >>

\* The capability approved a None proposal in the first iteration.
C11_Witness ==
    \E s \in sessions :
        /\ Len(agent_log[s]) = 1
        /\ ApprovesAbsent(agent_log[s][1])
        /\ pc[s] # "propose-user-goal"

C13_CommittedGoalIsFinalProposal ==
    \A s \in sessions :
        pc[s] = "APPROVED" =>
            LET final == Last(loop_results[s]) IN
            /\ final.goal_approved
            /\ final.proposed_goal # None
            /\ session_state[s].user_goal # None
            /\ session_state[s].user_goal[1].kind_of_graph =
                  final.proposed_goal[1].kind_of_graph
            /\ session_state[s].user_goal[1].description =
                  final.proposed_goal[1].description

\* A run approved in its second iteration with a goal that is neither the one
\* proposed in the first nor the one the session state held.
C13_Witness ==
    \E s \in sessions :
        /\ pc[s] = "APPROVED"
        /\ Len(loop_results[s]) = 2
        /\ loop_results[s][1].proposed_goal # None
        /\ loop_results[s][1].proposed_goal # loop_results[s][2].proposed_goal
        /\ session_state0[s].user_goal = loop_results[s][1].proposed_goal

\* C14: the user intent loop stops at the end of the first iteration whose terminal
\* output has goal_approved true, with that output as its last; no earlier
\* iteration's output is approved, and once stopped nothing of the run moves.
C14_StopsAtFirstApproval ==
    /\ [](\A s \in Sessions :
            /\ \A k \in 1..(Len(loop_results[s]) - 1) : ~loop_results[s][k].goal_approved
            /\ (loop_results[s] # << >> /\ Last(loop_results[s]).goal_approved) =>
                  pc[s] \in { "end-condition", "APPROVED" }
            /\ pc[s] = "APPROVED" =>
                  /\ Last(loop_results[s]).goal_approved
                  /\ iteration[s] = Len(loop_results[s]))
    /\ [][\A s \in Sessions :
            pc[s] = "APPROVED" =>
                UNCHANGED << pc[s], iteration[s], loop_results[s], agent_log[s],
                             wait_count[s], step_output[s], inst_last[s],
                             session_state[s], messages[s] >>]_vars

\* Approval came first in iteration 2 of 3: the loop stopped there.
C14_Witness ==
    \E s \in sessions :
        /\ pc[s] = "APPROVED"
        /\ iteration[s] = 2
        /\ max_iterations[s] = 3
        /\ ~loop_results[s][1].goal_approved

\* The messages of a history that the human wrote.
UserMessages(h) == { k \in 1..Len(h) : h[k].sender = "user" }

\* C15: the user intent loop waits for a human message exactly once in every
\* iteration after the first, before get-user-input produces anything, and never
\* in the first; after n iterations the history holds the trigger and n-1 further
\* human messages.
C15_OneWaitPerLaterIteration ==
    \A s \in sessions :
        kind[s] = UserIntent =>
            /\ wait_count[s] =
                  IF iteration[s] <= 1 THEN 0
                  ELSE IF pc[s] = "get-user-input" THEN iteration[s] - 2
                  ELSE iteration[s] - 1
            /\ pc[s] = "waiting" => (iteration[s] > 1 /\ step_output[s] = None)
            /\ loop_results[s] # << >> =>
                  Cardinality(UserMessages(Last(loop_results[s]).chat_history)) =
                      Len(loop_results[s])
            /\ pc[s] \in { "APPROVED", "EXHAUSTED" } => wait_count[s] = iteration[s] - 1

\* A run of three iterations, ended: two waits.
C15_Witness ==
    \E s \in sessions :
        /\ pc[s] \in { "APPROVED", "EXHAUSTED" }
        /\ iteration[s] = 3
        /\ wait_count[s] = 2

\* The place of message m in a message list (every message has a text of its own).
PlaceOf(msgs, m) == CHOOSE i \in 1..Len(msgs) : msgs[i] = m

C18_Original ==
    \A s \in Sessions :
        (run[s] = "waiting" /\ submitted_in_wait[s]) ~> (run[s] # "waiting")

C20_Original ==
    \A s \in sessions :
        ( /\ sp_pc[s] = "end-condition"
          /\ sc_pc[s] = "EXHAUSTED"
          /\ Last(sc_outputs[s]).content # Str("APPROVED") ) =>
            LET ec == SchemaProposalLoop_end_condition(Last(sc_outputs[s])) IN
            ~ec.raised /\ ~ec.value

\* C21 as stated: when the nested critic loop has stopped on its budget, the critic
\* not having approved, the schema proposal loop writes a message to the human
\* and goes on to its next iteration or stops EXHAUSTED; it neither stops
\* APPROVED nor fails.
C21_Original ==
    \A s \in sessions :
        ( /\ sc_pc[s] = "EXHAUSTED"
          /\ Last(sc_outputs[s]).content # Str("APPROVED")
          /\ sp_pc[s] \notin { "critic-loop", "end-condition" } ) =>
            /\ sp_pc[s] \in { "get-user-input", "EXHAUSTED" }
            /\ \E k \in 1..Len(messages[s]) : messages[s][k].sender = "agent"

\* C22 as stated: when the critic answers "APPROVED" in the first iteration of the
\* nested critic loop, the loop stops APPROVED at the end of that iteration and
\* the outer loop, still in the same outer iteration, goes on to its
\* end_condition.
C22_Original ==
    [][\A s \in Sessions :
          ( /\ sc_pc[s] = "end-condition"
            /\ sc_iteration[s] = 1
            /\ Last(sc_outputs[s]).content = Str("APPROVED")
            /\ sc_pc'[s] # sc_pc[s] ) =>
              /\ sc_pc'[s] = "APPROVED"
              /\ sc_iteration'[s] = 1
              /\ sp_pc'[s] = "end-condition"
              /\ sp_iteration'[s] = sp_iteration[s]]_vars

\* C23 as stated: in every outer iteration j of the schema proposal loop the nested
\* critic loop is run on the LoopState get-user-input produced, which holds the
\* human's messages up to the feedback of iteration j: the initial prompt and
\* one message for each later iteration.
C23_Original ==
    \A s \in sessions :
        ( /\ sp_pc[s] = "critic-loop"
          /\ sc_pc[s] \in { "propose-schema", "critique-schema" } ) =>
            /\ sp_step_output[s] # None
            /\ Cardinality(UserMessages(Get(sp_step_output[s]).chat_history)) =
                  sp_iteration[s]


\* C24: when the user intent loop stops EXHAUSTED, the workflow sends the human a
\* message saying that no consensus was reached: a message beyond the
\* human's first one and those the loop's own steps wrote follows the stop.
C24_Original ==
    \A s \in Sessions :
        (pc[s] = "EXHAUSTED") ~> (Len(messages[s]) > 1 + Len(agent_log[s]))

\* C25: peek_file called with a filename that is not among the session's files
\* returns the error string naming that filename instead of raising, and leaves
\* the session state and the carry-over of every loop as they were.
C25_MissingFileIsErrorString ==
    [][\A fn \in AskedNames :
          ( /\ peek_filename' = Some(fn)
            /\ peek_result' # peek_result \/ peek_filename' # peek_filename
            /\ (files = None \/ fn \notin DOMAIN Get(files)) ) =>
              /\ ~Get(peek_result').raised
              /\ Get(peek_result').type = "str"
              /\ Get(peek_result').text = << "ERROR: No file with name ", fn, " found." >>
              /\ files' = files
              /\ session_state' = session_state
              /\ << class_last', inst_last', sp_last' >> = << class_last, inst_last, sp_last >>]_vars

C25_Witness ==
    /\ files # None
    /\ DOMAIN Get(files) = { "a.csv" }
    /\ peek_filename = Some("b.csv")
    /\ peek_result # None
    /\ Get(peek_result).type = "str"

\* C26: peek_file called for a file of the session returns at most 11 lines, the
\* header line and the first 10 data rows, the very lines CSVFile.sample() gives.
C26_Original ==
    ( /\ peek_result # None
      /\ files # None
      /\ Get(peek_filename) \in DOMAIN Get(files) ) =>
        /\ Get(peek_result).type = "list"
        /\ Len(Get(peek_result).lines) <= 11
        /\ Get(peek_result).lines = sample(Get(files)[Get(peek_filename)])

\* h2 is h1 followed by exactly one message; h1 is a prefix of h2.
OneMore(h2, h1) == Len(h2) = Len(h1) + 1 /\ SubSeq(h2, 1, Len(h1)) = h1

IsPrefix(h1, h2) == Len(h1) <= Len(h2) /\ SubSeq(h2, 1, Len(h1)) = h1

\* The histories a schema proposal loop's get_user_input is handed.
SomeHistories ==
    { << Message("user", Text("a")) >>,
      << Message("user", Text("a")), Message("agent", Text("b")) >>,
      << Message("user", Text("a")), Message("agent", Text("b")), Message("user", Text("a")) >> }

C28_Original ==
    \A s \in sessions :
        \A j \in 1..Len(loop_results[s]) : \A k \in j..Len(loop_results[s]) :
            loop_results[s][j].proposed_goal # None =>
                loop_results[s][k].proposed_goal # None

\* C30: the schema critic loop stops at the end of the first inner iteration whose
\* critic feedback is exactly "APPROVED", and otherwise runs until max_iterations.
C30_Original ==
    \A s \in sessions :
        sc_pc[s] \in Stopped =>
            IF Last(sc_outputs[s]).content = Str("APPROVED")
            THEN sc_pc[s] = "APPROVED"
            ELSE sc_pc[s] = "EXHAUSTED" /\ sc_iteration[s] = sc_max_iterations[s]

C31_Original ==
    \A s \in sessions :
        (sp_pc[s] = "critic-loop" /\ sc_pc[s] = "critique-schema") =>
            LET handed == Last(sc_outputs[s]).content IN
            /\ { "filenames", "critic_feedback" } \subseteq DOMAIN handed
            /\ handed.critic_feedback = ""
            /\ Range(handed.filenames) = session_state[s].csv_files

\* C32: critique-schema changes only critic_feedback: the filenames, entity_types
\* and relationship_types of its output are those of its input, and no step of
\* the critic loop writes session state.
C32_Original ==
    \A s \in sessions :
        (sp_pc[s] = "critic-loop" /\ sc_pc[s] = "end-condition") =>
            LET input == sc_outputs[s][1].content
                output == sc_outputs[s][2].content
            IN
            /\ session_state[s] = session_state0[s]
            /\ { "entity_types", "relationship_types" } \subseteq DOMAIN output
            /\ output.entity_types = input.entity_types
            /\ output.relationship_types = input.relationship_types

\* C33: in the user intent loop, on every iteration k > 1, get-user-input outputs
\* the carry-over's proposed_goal, the carry-over's history followed by exactly
\* the human message received, and goal_approved false; it changes neither the
\* carry-over nor session state.
C33_GetUserInputFrame ==
    [][\A s \in sessions :
          /\ (pc[s] \in { "get-user-input", "waiting" } /\ pc'[s] # pc[s]) =>
                 /\ class_last' = class_last
                 /\ inst_last'[s] = inst_last[s]
                 /\ session_state'[s] = session_state[s]
          /\ (iteration[s] > 1 /\ pc[s] = "waiting" /\ pc'[s] = "propose-user-goal") =>
                 LET last == Get(last_iteration_output_content(s))
                     out == Get(step_output'[s])
                 IN
                 /\ out.proposed_goal = last.proposed_goal
                 /\ OneMore(out.chat_history, last.chat_history)
                 /\ Last(out.chat_history) \in { Message("user", Text(t)) : t \in UserTexts }
                 /\ out.goal_approved = FALSE]_vars

C33_Witness ==
    /\ iteration[1] = 2
    /\ pc[1] = "propose-user-goal"
    /\ step_output[1] # None
    /\ Get(step_output[1]).proposed_goal # None
    /\ Get(step_output[1]).proposed_goal = Get(inst_last[1]).proposed_goal
    /\ Len(Get(step_output[1]).chat_history) = 3

\* The agent's messages of a list, in order.
FromAgent(m) == m.sender = "agent"

AgentEntries(msgs) == SelectSeq(msgs, FromAgent)

\* The agent entries of the history at the end of the last completed iteration.
HistoryAgentEntries(s) ==
    IF loop_results[s] = << >> THEN << >>
    ELSE AgentEntries(Last(loop_results[s]).chat_history)

Submits(s) ==
    /\ Len(messages'[s]) = Len(messages[s]) + 1
    /\ Last(messages'[s]).sender = HumanSender

\* C35: after a file upload a workflow run is started exactly once, by the
\* submission that makes the session's message list have length 1; no later
\* submission starts another, and nothing else starts one.
C35_Original ==
    [][\A s \in sessions :
          /\ (Submits(s) /\ Len(messages'[s]) = 1) =>
                 (run[s] = "none" /\ run'[s] = "running")
          /\ (Submits(s) /\ Len(messages'[s]) > 1) => run'[s] = run[s]
          /\ (run[s] = "none" /\ run'[s] # "none") =>
                 (Submits(s) /\ Len(messages'[s]) = 1)]_vars

\* C36: on_msg_submit called before any file was uploaded shows the error and
\* changes nothing else: the message list stays as it was, no workflow run is
\* started, no event is set and the files stay missing.
C36_NoFilesNoMessage ==
    [][\A s \in sessions :
          (frontend = "streamlit" /\ ~files_submitted[s] /\ ~files_submitted'[s]) =>
              /\ error_shown'[s] \in { error_shown[s], error_shown[s] + 1 }
              /\ messages'[s] = messages[s]
              /\ messages[s] = << >>
              /\ run'[s] = "none"
              /\ callback'[s] = "idle"
              /\ ~USER_SENT_MESSAGE'[EventOf(s)]
              /\ returned'[s] = << >>]_vars

C36_Witness ==
    /\ frontend = "streamlit"
    /\ ~files_submitted[1]
    /\ error_shown[1] = 2
    /\ messages[1] = << >>
    /\ run[1] = "none"
====
